---- MODULE Spec2Model ----
(***************************************************************************)
(* A model of the REST API generator: the template generator of            *)
(* api_generator/main1_excercise.py, the AI call-and-parse wrapper and the *)
(* enhanced generator of api_generator/ai_code_gen.py, and the request     *)
(* handlers of api_generator/main3.py.                                     *)
(*                                                                         *)
(* Text is modelled as a sequence of tokens.  A model reply is a sequence  *)
(* over ReplyTokens: "ws" is a run of whitespace, "fence" the three        *)
(* backquotes of a code fence, "json" the word json (so that "fence"       *)
(* followed by "json" is the tag of a json code fence), "x" any text that  *)
(* is not JSON, and "{full}", "{empty}", "{}" and "[]" are complete JSON    *)
(* values: an object with every key the operations read, an object whose   *)
(* strings are empty, the empty object and the empty array.                *)
(* A Python dict is a function from its keys; a Python call returns        *)
(* Ok(value) or Raise(exception).                                          *)
(*                                                                         *)
(* Spec follows one request through the handlers.  SpecCalls invokes the   *)
(* template generators and the FULLY_AI loop in any order and at any time, *)
(* keeping two invocations for comparison.  SpecHelpers applies the path   *)
(* helpers, the example endpoints, the handler generator and the reply     *)
(* parsing of the three AI operations to one input each.  SpecConcurrent   *)
(* serves two requests whose awaits interleave.                            *)
(***************************************************************************)
EXTENDS Integers, Sequences, FiniteSets, TLC

VARIABLES
    pc,                 \* position of the request being served
    envKey,             \* what os.getenv("OPENAI_API_KEY") returned, "unread" before
    mode,               \* the mode query parameter of /api/ai/enhance-code
    callerSpec,         \* the spec dict as the caller built it (never written)
    spec,               \* the spec dict object the handler passed on (mutable)
    idx,                \* position of the for loop over spec["endpoints"]
    enhanced_endpoints, \* the list built by the FULLY_AI loop
    main_code,          \* main_code of generate_enhanced_api
    review_result,      \* review_result of generate_enhanced_api
    inflight,           \* the operation awaiting its chat-completion call
    calls,              \* per invocation, the calls each operation has issued
    op,                 \* the AICodeGenerator operation invoked last
    opArg,              \* the argument it was given
    tryResult,          \* what its try block got up to json.loads: Ok or Raise
    opResult,           \* how it ended: Ok(returned value) or Raise(exception)
    apiResult,          \* how generate_enhanced_api / generate_api ended
    response,           \* the HTTP response of the request
    keptCall,           \* an earlier invocation of a stateless operation
    lastCall,           \* the latest invocation of a stateless operation
    frames,             \* per request served concurrently, its coroutine's locals
    enhanced_lists      \* per request served concurrently, its enhanced_endpoints

\* the variables of one request through the handlers
requestVars == <<pc, envKey, mode, callerSpec, spec, idx, enhanced_endpoints,
                 main_code, review_result, inflight, calls, op, opArg, tryResult,
                 opResult, apiResult, response>>

\* the variables of the other specifications of this module
concVars == <<frames, enhanced_lists>>
auxVars == <<keptCall, lastCall, concVars>>

vars == <<requestVars, auxVars>>

-----------------------------------------------------------------------------
(* Bounds of the model *)

MaxReplyLen == 3
MaxEndpoints == 2
MaxClock == 1
MaxSegments == 3

-----------------------------------------------------------------------------
(* Python values *)

None == [kind |-> "None"]
Str(x) == [kind |-> "str", text |-> x]
Truthy(v) == v # None /\ v # Str("")
Ok(v) == [ok |-> TRUE, v |-> v]
Raise(e) == [ok |-> FALSE, exc |-> e]

\* dict.get(k, default)
Get(d, k, default) == IF k \in DOMAIN d THEN d[k] ELSE default

\* d[k] = v on a copy of d
SetKey(d, k, v) == [x \in DOMAIN d \cup {k} |-> IF x = k THEN v ELSE d[x]]

EmptyDict == [x \in {} |-> ""]

-----------------------------------------------------------------------------
(* str.strip, the in operator and str.split on token sequences *)

RECURSIVE lstrip(_)
lstrip(s) == IF s # <<>> /\ Head(s) = "ws" THEN lstrip(Tail(s)) ELSE s

RECURSIVE rstrip(_)
rstrip(s) ==
    IF s # <<>> /\ s[Len(s)] = "ws" THEN rstrip(SubSeq(s, 1, Len(s) - 1)) ELSE s

strip(s) == rstrip(lstrip(s))

\* the positions at which pat occurs in s
Occurrences(s, pat) ==
    {i \in 1..(Len(s) - Len(pat) + 1) : SubSeq(s, i, i + Len(pat) - 1) = pat}

Contains(s, pat) == Occurrences(s, pat) # {}

Min(S) == CHOOSE m \in S : \A n \in S : m <= n

\* s.split(pat)[0]
SplitFirst(s, pat) ==
    IF Contains(s, pat) THEN SubSeq(s, 1, Min(Occurrences(s, pat)) - 1) ELSE s

\* what follows the first occurrence of pat in s
AfterFirst(s, pat) ==
    SubSeq(s, Min(Occurrences(s, pat)) + Len(pat), Len(s))

\* s.split(pat)[1], for s that contains pat
SplitSecond(s, pat) == SplitFirst(AfterFirst(s, pat), pat)

FenceJson == <<"fence", "json">>
Fence == <<"fence">>

\* the code-fence stripping of the three AI operations
ExtractJson_AnyFence(content) ==
    IF Contains(content, Fence)
    THEN strip(SplitFirst(SplitSecond(content, Fence), Fence))
    ELSE content
ExtractJson(content) ==
    IF Contains(content, FenceJson)
    THEN strip(SplitFirst(SplitSecond(content, FenceJson), Fence))
    ELSE IF Contains(content, Fence)
         THEN strip(SplitFirst(SplitSecond(content, Fence), Fence))
         ELSE content

-----------------------------------------------------------------------------
(* json.loads *)

FullObject ==
    [implementation |-> Str("impl"), database_operations |-> Str("dbops"),
     optimized_code |-> Str("opt"), quality_score |-> 85, issues |-> <<"issue">>,
     reasoning |-> Str("why"), suggestions |-> <<"sugg">>,
     confidence_score |-> 95]

\* the object a model replies with when it has nothing to offer
EmptyStrings == [implementation |-> Str(""), optimized_code |-> Str("")]

JsonTokens == {"{full}", "{empty}", "{}", "[]"}
ReplyTokens == {"ws", "fence", "json", "x"} \cup JsonTokens

JsonValue(tok) ==
    CASE tok = "{full}" -> [t |-> "dict", v |-> FullObject]
      [] tok = "{empty}" -> [t |-> "dict", v |-> EmptyStrings]
      [] tok = "{}" -> [t |-> "dict", v |-> EmptyDict]
      [] tok = "[]" -> [t |-> "list"]

\* json.loads(s): one JSON value, whitespace allowed around it
json_loads(s) ==
    IF Len(strip(s)) = 1 /\ strip(s)[1] \in JsonTokens
    THEN Ok(JsonValue(strip(s)[1]))
    ELSE Raise("JSONDecodeError")

-----------------------------------------------------------------------------
(* The chat-completion call and the parsing of its reply *)

Replies == UNION {[1..n -> ReplyTokens] : n \in 0..MaxReplyLen}

\* what awaiting client.chat.completions.create can give: an exception, a
\* message whose content is None, or a message with text
CallOutcomes ==
    {[kind |-> "error"], [kind |-> "null"]}
        \cup {[kind |-> "reply", content |-> r] : r \in Replies}

\* response.choices[0].message.content.strip(), the fence stripping and
\* json.loads, as the three operations do them inside their try block
ParseReply(outcome) ==
    CASE outcome.kind = "error" -> Raise("APIError")
      [] outcome.kind = "null" -> Raise("AttributeError")
      [] outcome.kind = "reply" -> json_loads(ExtractJson(strip(outcome.content)))

HTTPException(status_code, detail) ==
    Raise([status_code |-> status_code, detail |-> detail])

\* self.client is the module-level AsyncOpenAI object: never falsy
client == [kind |-> "AsyncOpenAI"]

\* generate_api_spec_from_description from the reply on.  "parse_error" is
\* the detail of the except json.JSONDecodeError clause, "generation_error"
\* the detail of the except Exception clause.
spec_from_reply_AnyError(outcome) ==
    LET p == ParseReply(outcome)
    IN  IF ~p.ok \/ p.v.t # "dict"
        THEN HTTPException(500, "generation_error")
        ELSE Ok([api_spec |-> p.v.v,
                 reasoning |-> Get(p.v.v, "reasoning", Str("AI result")),
                 suggestions |-> Get(p.v.v, "suggestions", <<>>),
                 confidence_score |-> Get(p.v.v, "confidence_score", 80)])

spec_from_reply(outcome) ==
    LET p == ParseReply(outcome)
    IN  IF ~p.ok
        THEN IF p.exc = "JSONDecodeError"
             THEN HTTPException(500, "parse_error")
             ELSE HTTPException(500, "generation_error")
        ELSE IF p.v.t # "dict"
             THEN HTTPException(500, "generation_error")
             ELSE Ok([api_spec |-> p.v.v,
                      reasoning |-> Get(p.v.v, "reasoning", Str("AI result")),
                      suggestions |-> Get(p.v.v, "suggestions", <<>>),
                      confidence_score |-> Get(p.v.v, "confidence_score", 80)])

\* the f-string of enhance_endpoint_logic reads these keys inside the try
PromptKeys == {"method", "path", "description"}

\* enhance_endpoint_logic from the reply on
enhance_from_reply_InPlace(endpoint, outcome) ==
    LET p == ParseReply(outcome)
    IN  IF p.ok /\ p.v.t = "dict"
        THEN SetKey(SetKey(endpoint, "ai_generated_logic",
                           Get(p.v.v, "implementation", Str(""))),
                    "business_logic", Get(p.v.v, "database_operations", Str("")))
        ELSE SetKey(endpoint, "ai_generated_logic", Str(""))

enhance_from_reply(endpoint, outcome) ==
    LET p == ParseReply(outcome)
    IN  IF p.ok /\ p.v.t = "dict"
        THEN SetKey(SetKey(endpoint, "ai_generated_logic",
                           Get(p.v.v, "implementation", Str(""))),
                    "business_logic", Get(p.v.v, "database_operations", Str("")))
        ELSE endpoint

ReviewFallback(code) ==
    [t |-> "dict", v |-> [quality_score |-> 70, issues |-> <<>>, optimized_code |-> code]]

\* review_and_optimize_code from the reply on: whatever json.loads returned
review_from_reply_Raising(code, outcome) ==
    LET p == ParseReply(outcome)
    IN  IF p.ok THEN Ok(p.v)
        ELSE IF p.exc = "JSONDecodeError" THEN Raise("JSONDecodeError")
        ELSE Ok(ReviewFallback(code))

review_from_reply(code, outcome) ==
    LET p == ParseReply(outcome)
    IN  IF p.ok THEN Ok(p.v) ELSE Ok(ReviewFallback(code))

-----------------------------------------------------------------------------
(* Paths, endpoints and specs *)

\* A path is a sequence of tokens: "/", "{", "}", "\\" (one backslash) and words.
PathUsers == <<"/", "api", "/", "users">>
PathUserId == <<"/", "api", "/", "users", "/", "{", "user_id", "}">>

\* the first position >= i that holds tok, 0 when there is none
RECURSIVE IndexFrom(_, _, _)
IndexFrom(s, tok, i) ==
    IF i > Len(s) THEN 0
    ELSE IF s[i] = tok THEN i
    ELSE IndexFrom(s, tok, i + 1)

\* the end of the match of \\{([^}]+)\\} that starts at i, 0 when none starts
\* there: a backslash, "{", one or more characters other than "}", a
\* backslash, "}"
MatchEnd(path, i) ==
    LET q == IndexFrom(path, "}", i + 2)
    IN  IF /\ i + 1 <= Len(path)
           /\ path[i] = "\\"
           /\ path[i + 1] = "{"
           /\ q >= i + 4
           /\ path[q - 1] = "\\"
        THEN q
        ELSE 0

\* re.findall(r"\\{([^}]+)\\}", path) from position i on
RECURSIVE FindAllFrom(_, _)
FindAllFrom(path, i) ==
    IF i > Len(path) THEN <<>>
    ELSE IF MatchEnd(path, i) # 0
         THEN <<SubSeq(path, i + 2, MatchEnd(path, i) - 2)>>
                  \o FindAllFrom(path, MatchEnd(path, i) + 1)
         ELSE FindAllFrom(path, i + 1)

extract_path_params(path) == FindAllFrom(path, 1)

EpList == [path |-> PathUsers, method |-> "GET", description |-> "list users"]
EpDelete == [path |-> PathUserId, method |-> "DELETE", description |-> "delete user"]
EpNoMethod == [path |-> PathUsers, description |-> "no method"]

EndpointSamples == {EpList, EpDelete, EpNoMethod}
EndpointLists == UNION {[1..n -> EndpointSamples] : n \in 0..MaxEndpoints}

BaseSpec(eps) ==
    [name |-> "Shop", description |-> "shop api", database |-> "postgresql",
     authentication |-> "jwt", endpoints |-> eps]

SpecNoDescription == [name |-> "Shop", endpoints |-> <<EpList>>]
SpecNoEndpoints == [name |-> "Shop", description |-> "shop api"]

SpecSamples ==
    {BaseSpec(eps) : eps \in EndpointLists} \cup {SpecNoDescription, SpecNoEndpoints}

\* a spec dict "that has name and description and well-formed endpoints"
WellFormedEndpoint(e) == PromptKeys \subseteq DOMAIN e
WellFormedSpec(s) ==
    /\ {"name", "description"} \subseteq DOMAIN s
    /\ \A i \in 1..Len(Get(s, "endpoints", <<>>)) : WellFormedEndpoint(s.endpoints[i])

\* datetime.now() is read from the clock
Clock == 0..MaxClock

-----------------------------------------------------------------------------
(* The enhanced template generator (AIEnhancedCodeGenerator) *)

Lower(method) ==
    CASE method = "GET" -> "get"
      [] method = "POST" -> "post"
      [] method = "PUT" -> "put"
      [] method = "PATCH" -> "patch"
      [] method = "DELETE" -> "delete"
      [] OTHER -> method

\* _generate_default_logic: path_params[0] raises IndexError on an empty list
generate_default_logic(endpoint, path_params) ==
    CASE endpoint.method = "GET" ->
            IF path_params # <<>>
            THEN Ok([variant |-> "get_one", resource_id |-> path_params[1]])
            ELSE Ok([variant |-> "get_list"])
      [] endpoint.method = "POST" -> Ok([variant |-> "create"])
      [] endpoint.method \in {"PUT", "PATCH"} ->
            Ok([variant |-> "update",
                resource_id |-> IF path_params # <<>> THEN path_params[1]
                                ELSE <<"request_data.get(id)">>])
      [] endpoint.method = "DELETE" ->
            IF path_params # <<>>
            THEN Ok([variant |-> "delete", resource_id |-> path_params[1]])
            ELSE Raise("IndexError")
      [] OTHER -> Ok([variant |-> "basic"])

\* _generate_ai_enhanced_endpoint: the handler block of one endpoint
generate_ai_enhanced_endpoint(endpoint, s) ==
    IF ~({"method", "path"} \subseteq DOMAIN endpoint) THEN Raise("KeyError")
    ELSE
    LET ai_logic == Get(endpoint, "ai_generated_logic", Str(""))
        path_params == extract_path_params(endpoint.path)
        auth_required == Get(s, "authentication", "none") # "none"
        implementation ==
            IF Truthy(ai_logic) THEN Ok([variant |-> "ai", logic |-> ai_logic])
            ELSE generate_default_logic(endpoint, path_params)
    IN  IF ~implementation.ok THEN implementation
        ELSE IF "description" \notin DOMAIN endpoint THEN Raise("KeyError")
        ELSE Ok([decorator |-> Lower(endpoint.method),
                 method |-> endpoint.method,
                 path |-> endpoint.path,
                 tags |-> Get(endpoint, "tags", <<"default">>),
                 path_params |-> path_params,
                 request_data |-> endpoint.method \in {"POST", "PUT", "PATCH"},
                 auth_param |-> auth_required,
                 description |-> endpoint.description,
                 implementation |-> implementation.v])

\* endpoints_code: the blocks of the endpoints in list order, or the first
\* exception raised
RECURSIVE EndpointsCode(_, _)
EndpointsCode(eps, s) ==
    IF eps = <<>> THEN Ok(<<>>)
    ELSE LET b == generate_ai_enhanced_endpoint(Head(eps), s)
             rest == EndpointsCode(Tail(eps), s)
         IN  IF ~b.ok THEN b
             ELSE IF ~rest.ok THEN rest
             ELSE Ok(<<b.v>> \o rest.v)

\* _generate_ai_enhanced_main_code at time t
generate_ai_enhanced_main_code_FixedVersion(s, t) ==
    LET code == EndpointsCode(Get(s, "endpoints", <<>>), s)
    IN  IF ~code.ok THEN code
        ELSE IF ~({"name", "description"} \subseteq DOMAIN s) THEN Raise("KeyError")
        ELSE Ok([kind |-> "main_code",
                 name |-> s.name,
                 description |-> s.description,
                 version |-> "1.0.0",
                 generated_at |-> t,
                 endpoints_code |-> code.v])

generate_ai_enhanced_main_code(s, t) ==
    LET code == EndpointsCode(Get(s, "endpoints", <<>>), s)
    IN  IF ~code.ok THEN code
        ELSE IF ~({"name", "description"} \subseteq DOMAIN s) THEN Raise("KeyError")
        ELSE Ok([kind |-> "main_code",
                 name |-> s.name,
                 description |-> s.description,
                 version |-> Get(s, "version", "1.0.0"),
                 generated_at |-> t,
                 endpoints_code |-> code.v])

\* _generate_enhanced_models at time t
generate_enhanced_models_TimedName(s, t) ==
    IF "name" \notin DOMAIN s THEN Raise("KeyError")
    ELSE Ok([kind |-> "models", name |-> <<s.name, t>>, generated_at |-> t])
generate_enhanced_models(s, t) ==
    IF "name" \notin DOMAIN s THEN Raise("KeyError")
    ELSE Ok([kind |-> "models", name |-> s.name, generated_at |-> t])

\* generate_enhanced_api calls self._generate_enhanced_database, which the
\* class does not define: the attribute lookup raises
generate_enhanced_database(s) == Raise("AttributeError")

BaseRequirementsEnhanced ==
    <<"fastapi", "uvicorn", "pydantic", "sqlalchemy", "alembic", "python-jose",
      "passlib", "python-multipart", "python-dotenv", "redis", "celery", "httpx",
      "structlog", "sentry-sdk", "pytest", "pytest-asyncio", "black", "isort",
      "mypy">>

db_drivers_Swapped(db_type) ==
    CASE db_type = "postgresql" -> <<"psycopg2-binary">>
      [] db_type = "mysql" -> <<"psycopg2-binary">>
      [] db_type = "mongodb" -> <<"motor", "pymongo">>
      [] OTHER -> <<>>

db_drivers(db_type) ==
    CASE db_type = "postgresql" -> <<"psycopg2-binary">>
      [] db_type = "mysql" -> <<"pymysql">>
      [] db_type = "mongodb" -> <<"motor", "pymongo">>
      [] OTHER -> <<>>

\* _generate_enhanced_requirements: the packages joined by a newline
generate_enhanced_requirements(s) ==
    Ok([kind |-> "joined", sep |-> "newline",
        items |-> BaseRequirementsEnhanced \o db_drivers(Get(s, "database", "sqlite"))])

\* the documentation block of one endpoint
DocBlock(endpoint) ==
    IF ~(PromptKeys \subseteq DOMAIN endpoint) THEN Raise("KeyError")
    ELSE Ok([method |-> endpoint.method, path |-> endpoint.path,
             description |-> endpoint.description,
             tags |-> Get(endpoint, "tags", <<>>),
             ai_note |-> Truthy(Get(endpoint, "ai_generated_logic", None))])

RECURSIVE DocBlocks(_)
DocBlocks(eps) ==
    IF eps = <<>> THEN Ok(<<>>)
    ELSE LET b == DocBlock(Head(eps))
             rest == DocBlocks(Tail(eps))
         IN  IF ~b.ok THEN b
             ELSE IF ~rest.ok THEN rest
             ELSE Ok(<<b.v>> \o rest.v)

\* _generate_enhanced_documentation at time t
generate_enhanced_documentation(s, t) ==
    IF ~({"name", "description"} \subseteq DOMAIN s) THEN Raise("KeyError")
    ELSE LET blocks == DocBlocks(Get(s, "endpoints", <<>>))
         IN  IF ~blocks.ok THEN blocks
             ELSE Ok([kind |-> "documentation", name |-> s.name,
                      description |-> s.description,
                      framework |-> Get(s, "framework", "FastAPI"),
                      database |-> Get(s, "database", "PostgreSQL"),
                      authentication |-> Get(s, "authentication", "JWT"),
                      generated_at |-> t, endpoints |-> blocks.v])

GenerationModes == {"template", "ai_assisted", "fully_ai"}

\* the dict display that generate_enhanced_api returns, its values evaluated
\* in the order written
enhanced_result(s, code, review, m, tm, td) ==
    LET models == generate_enhanced_models(s, tm)
        database == generate_enhanced_database(s)
        requirements == generate_enhanced_requirements(s)
        documentation == generate_enhanced_documentation(s, td)
    IN  IF ~models.ok THEN models
        ELSE IF ~database.ok THEN database
        ELSE IF ~requirements.ok THEN requirements
        ELSE IF ~documentation.ok THEN documentation
        ELSE Ok([main_code |-> code,
                 models |-> models.v,
                 database |-> database.v,
                 requirements |-> requirements.v,
                 documentation |-> documentation.v,
                 ai_review |-> IF m # "template" THEN review ELSE None])

-----------------------------------------------------------------------------
(* The basic template generator (FastAPICodeGenerator) *)

HTTPMethod == {"GET", "POST", "PUT", "DELETE", "PATCH"}

\* pydantic's validation of a request body as an APISpecModel, with the
\* defaults of the model filled in
APISpecModel(d) ==
    IF /\ {"name", "description", "endpoints"} \subseteq DOMAIN d
       /\ \A i \in 1..Len(d.endpoints) :
              /\ PromptKeys \subseteq DOMAIN d.endpoints[i]
              /\ d.endpoints[i].method \in HTTPMethod
    THEN Ok([name |-> d.name, description |-> d.description,
             version |-> Get(d, "version", "1.0.0"),
             framework |-> Get(d, "framework", "fastapi"),
             database |-> Get(d, "database", "postgresql"),
             authentication |-> Get(d, "authentication", "jwt"),
             endpoints |-> d.endpoints])
    ELSE Raise("RequestValidationError")

\* the generators left as "return" with no value
generate_main_code(s) == None
generate_models(s) == None
generate_database_code(s) == None
generate_documentation(s) == None

\* _generate_requirements: the packages joined by a backslash and an n
generate_requirements(s) ==
    [kind |-> "joined", sep |-> "backslash-n",
     items |-> <<"fastapi", "uvicorn", "pydantic">>
                \o (IF s.database = "mongodb" THEN <<"motor">>
                    ELSE <<"sqlalchemy", "alembic">>)
                \o (IF s.database = "postgresql" THEN <<"psycopg2-binary">>
                    ELSE IF s.database = "mysql" THEN <<"pymysql">>
                    ELSE <<>>)
                \o (IF s.authentication # "none" THEN <<"python-jose", "passlib">>
                    ELSE <<>>)]

IsStr(v) == v.kind # "None"

\* GeneratedCodeResponse(...): five fields declared str
GeneratedCodeResponse(fields) ==
    IF \A k \in DOMAIN fields : IsStr(fields[k]) THEN Ok(fields)
    ELSE Raise("ValidationError")

\* FastAPICodeGenerator.generate_api
generate_api(s) ==
    GeneratedCodeResponse([main_code |-> generate_main_code(s),
                           models |-> generate_models(s),
                           database |-> generate_database_code(s),
                           requirements |-> generate_requirements(s),
                           documentation |-> generate_documentation(s)])

-----------------------------------------------------------------------------
(* The request handlers *)

EnvValues == {"unset", "empty", "set"}
ModeInputs == GenerationModes \cup {"bogus"}

Pending == [state |-> "pending"]
NoCalls == [describe |-> 0, review |-> 0, enhance |-> <<>>]
NoCall == [fn |-> "none"]

\* a server that has received no request
InitRequest ==
    /\ pc = "idle"
    /\ envKey = "unread"
    /\ mode = "none"
    /\ callerSpec = EmptyDict
    /\ spec = EmptyDict
    /\ idx = 0
    /\ enhanced_endpoints = <<>>
    /\ main_code = None
    /\ review_result = None
    /\ inflight = "none"
    /\ calls = NoCalls
    /\ op = "none"
    /\ opArg = None
    /\ tryResult = Pending
    /\ opResult = Pending
    /\ apiResult = Pending
    /\ response = [status_code |-> 0]

\* the requests served concurrently
Requests == {"first", "second"}

IdleFrame ==
    [pc |-> "idle", body |-> EmptyDict, mode |-> "none", spec |-> EmptyDict,
     idx |-> 0, main_code |-> None, replies |-> <<>>,
     response |-> [status_code |-> 0]]

\* no concurrent request has arrived
InitServing ==
    /\ frames = [r \in Requests |-> IdleFrame]
    /\ enhanced_lists = [r \in Requests |-> <<>>]

Init ==
    /\ InitRequest
    /\ InitServing
    /\ keptCall = NoCall
    /\ lastCall = NoCall

\* "not os.getenv(...)": None and the empty string are falsy
KeyMissing_NoneOnly(k) == k = "unset"
KeyMissing(k) == k \in {"unset", "empty"}

\* the request body of /api/ai/generate-from-description
DescriptionRequest == [description |-> Str("a shop"), domain |-> None]

\* POST /api/ai/generate-from-description, up to its await
GenerateFromDescription ==
    /\ pc = "idle"
    /\ \E k \in EnvValues :
        /\ envKey' = k
        /\ IF KeyMissing(k)
           THEN /\ response' = [status_code |-> 503, detail |-> "api_key_missing"]
                /\ pc' = "done"
                /\ UNCHANGED <<calls, inflight, op, opArg, opResult>>
           ELSE /\ op' = "describe"
                /\ opArg' = DescriptionRequest
                /\ IF client = None
                   THEN /\ opResult' = HTTPException(503, "client_missing")
                        /\ response' = [status_code |-> 500,
                                        detail |-> "generation_failed",
                                        cause |-> opResult'.exc]
                        /\ pc' = "done"
                        /\ UNCHANGED <<calls, inflight>>
                   ELSE /\ calls' = [calls EXCEPT !.describe = @ + 1]
                        /\ inflight' = "describe"
                        /\ pc' = "describe_await"
                        /\ UNCHANGED <<response, opResult>>
    /\ UNCHANGED <<mode, callerSpec, spec, idx, enhanced_endpoints, main_code,
                   review_result, tryResult, apiResult>>
    /\ UNCHANGED auxVars

\* generate_api_spec_from_description resumes with the outcome of its call,
\* and the handler answers
DescribeReply ==
    /\ pc = "describe_await"
    /\ \E o \in CallOutcomes :
        /\ tryResult' = ParseReply(o)
        /\ opResult' = spec_from_reply(o)
        /\ response' =
              IF opResult'.ok
              THEN [status_code |-> 200, success |-> TRUE,
                    data |-> opResult'.v.api_spec,
                    reasoning |-> opResult'.v.reasoning,
                    suggestions |-> opResult'.v.suggestions,
                    confidence_score |-> opResult'.v.confidence_score]
              ELSE [status_code |-> 500, detail |-> "generation_failed",
                    cause |-> opResult'.exc]
    /\ inflight' = "none"
    /\ pc' = "done"
    /\ UNCHANGED <<envKey, mode, callerSpec, spec, idx, enhanced_endpoints,
                   main_code, review_result, calls, op, opArg, apiResult>>
    /\ UNCHANGED auxVars

\* the except branch of generate_enhanced_code: "result = None" stands where
\* the basic generator is meant to be called
fallback_result(s) == None

FallbackResponse(s, exc) ==
    [status_code |-> 200, success |-> TRUE, data |-> fallback_result(s),
     mode |-> "basic_fallback", note |-> exc]

\* POST /api/ai/enhance-code: GenerationMode(mode), then generate_enhanced_api
\* up to the for loop or the main code
GenerateEnhancedCode ==
    /\ pc = "idle"
    /\ \E s \in SpecSamples, m \in ModeInputs :
        /\ callerSpec' = s
        /\ spec' = s
        /\ mode' = m
        /\ IF m \notin GenerationModes
           THEN /\ response' = FallbackResponse(s, "ValueError")
                /\ pc' = "done"
                /\ UNCHANGED <<idx, calls, apiResult>>
           ELSE IF m = "fully_ai"
           THEN IF {"name", "description"} \subseteq DOMAIN s
                THEN /\ idx' = 1
                     /\ calls' = [calls EXCEPT !.enhance =
                                     [i \in 1..Len(Get(s, "endpoints", <<>>)) |-> 0]]
                     /\ pc' = "enhance_loop"
                     /\ UNCHANGED <<response, apiResult>>
                ELSE /\ apiResult' = Raise("KeyError")
                     /\ response' = FallbackResponse(s, "KeyError")
                     /\ pc' = "done"
                     /\ UNCHANGED <<idx, calls>>
           ELSE /\ pc' = "enhance_main"
                /\ UNCHANGED <<idx, calls, response, apiResult>>
    /\ UNCHANGED <<envKey, enhanced_endpoints, main_code, review_result, inflight,
                   op, opArg, tryResult, opResult>>
    /\ UNCHANGED auxVars

\* the list the for loop iterates: spec.get("endpoints", [])
LoopList == Get(spec, "endpoints", <<>>)

\* where the for loop goes after the endpoint at i
enhance_next_idx_Skip(i, outcome) == i + 2
enhance_next_idx_Retry(i, outcome) == IF outcome.kind = "error" THEN i ELSE i + 1
enhance_next_idx(i, outcome) == i + 1

\* one iteration of the loop: enhance_endpoint_logic up to its await, or to
\* its return when the prompt cannot be built
EnhanceEndpoint ==
    /\ pc = "enhance_loop"
    /\ idx <= Len(LoopList)
    /\ op' = "enhance"
    /\ opArg' = LoopList[idx]
    /\ IF client = None
       THEN /\ opResult' = Ok(LoopList[idx])
            /\ enhanced_endpoints' = Append(enhanced_endpoints, LoopList[idx])
            /\ idx' = idx + 1
            /\ UNCHANGED <<pc, calls, inflight, tryResult>>
       ELSE IF ~WellFormedEndpoint(LoopList[idx])
       THEN /\ tryResult' = Raise("KeyError")
            /\ opResult' = Ok(LoopList[idx])
            /\ enhanced_endpoints' = Append(enhanced_endpoints, LoopList[idx])
            /\ idx' = idx + 1
            /\ UNCHANGED <<pc, calls, inflight>>
       ELSE /\ calls' = [calls EXCEPT !.enhance[idx] = @ + 1]
            /\ inflight' = "enhance"
            /\ tryResult' = Pending
            /\ opResult' = Pending
            /\ pc' = "enhance_await"
            /\ UNCHANGED <<enhanced_endpoints, idx>>
    /\ UNCHANGED <<envKey, mode, callerSpec, spec, main_code, review_result,
                   apiResult, response>>
    /\ UNCHANGED auxVars

\* enhance_endpoint_logic resumes with the outcome of its call
EnhanceReply ==
    /\ pc = "enhance_await"
    /\ \E o \in CallOutcomes :
        /\ tryResult' = ParseReply(o)
        /\ opResult' = Ok(enhance_from_reply(LoopList[idx], o))
        /\ idx' = enhance_next_idx(idx, o)
        /\ enhanced_endpoints' =
              IF idx' > idx THEN Append(enhanced_endpoints, opResult'.v)
              ELSE enhanced_endpoints
    /\ inflight' = "none"
    /\ pc' = "enhance_loop"
    /\ UNCHANGED <<envKey, mode, callerSpec, spec, main_code, review_result,
                   calls, op, opArg, apiResult, response>>
    /\ UNCHANGED auxVars

Carries(endpoint) == "ai_generated_logic" \in DOMAIN endpoint

\* what the statement after the loop leaves in the caller's dict
endpoints_after_loop_AllOrNothing(s, enhanced) ==
    IF \A i \in 1..Len(enhanced) : Carries(enhanced[i])
    THEN SetKey(s, "endpoints", enhanced)
    ELSE s
endpoints_after_loop(s, enhanced) == SetKey(s, "endpoints", enhanced)

\* the end of the loop: spec["endpoints"] = enhanced_endpoints
EnhanceLoopEnd ==
    /\ pc = "enhance_loop"
    /\ idx > Len(LoopList)
    /\ spec' = endpoints_after_loop(spec, enhanced_endpoints)
    /\ pc' = "enhance_main"
    /\ UNCHANGED <<envKey, mode, callerSpec, idx, enhanced_endpoints, main_code,
                   review_result, inflight, calls, op, opArg, tryResult, opResult,
                   apiResult, response>>
    /\ UNCHANGED auxVars

\* main_code = self._generate_ai_enhanced_main_code(spec), then
\* review_and_optimize_code up to its await
BuildMainCode ==
    /\ pc = "enhance_main"
    /\ \E t \in Clock :
        LET code == generate_ai_enhanced_main_code(spec, t)
        IN  IF ~code.ok
            THEN /\ apiResult' = code
                 /\ response' = FallbackResponse(spec, code.exc)
                 /\ pc' = "done"
                 /\ UNCHANGED <<main_code, review_result, calls, inflight, op, opArg,
                                tryResult, opResult>>
            ELSE /\ main_code' = code.v
                 /\ IF mode \in {"ai_assisted", "fully_ai"}
                    THEN /\ op' = "review"
                         /\ opArg' = code.v
                         /\ IF client = None
                            THEN /\ opResult' = Ok(ReviewFallback(code.v))
                                 /\ review_result' = ReviewFallback(code.v)
                                 /\ pc' = "enhance_return"
                                 /\ UNCHANGED <<calls, inflight, tryResult>>
                            ELSE /\ calls' = [calls EXCEPT !.review = @ + 1]
                                 /\ inflight' = "review"
                                 /\ tryResult' = Pending
                                 /\ opResult' = Pending
                                 /\ pc' = "review_await"
                                 /\ UNCHANGED review_result
                    ELSE /\ pc' = "enhance_return"
                         /\ UNCHANGED <<review_result, calls, inflight, op, opArg,
                                        tryResult, opResult>>
                 /\ UNCHANGED <<apiResult, response>>
    /\ UNCHANGED <<envKey, mode, callerSpec, spec, idx, enhanced_endpoints>>
    /\ UNCHANGED auxVars

\* "if review_result.get("optimized_code"): main_code = ...": the main code
\* after the review, review being the dict the review returned
carried_main_code_IfPresent(code, review) ==
    IF "optimized_code" \in DOMAIN review THEN review.optimized_code ELSE code
carried_main_code(code, review) ==
    IF Truthy(Get(review, "optimized_code", None)) THEN review.optimized_code
    ELSE code

\* review_and_optimize_code resumes with the outcome of its call, then
\* "if review_result.get("optimized_code")"
ReviewReply ==
    /\ pc = "review_await"
    /\ \E o \in CallOutcomes :
        /\ tryResult' = ParseReply(o)
        /\ opResult' = review_from_reply(main_code, o)
        /\ IF ~opResult'.ok
           THEN /\ apiResult' = opResult'
                /\ response' = FallbackResponse(spec, opResult'.exc)
                /\ pc' = "done"
                /\ UNCHANGED <<main_code, review_result>>
           ELSE /\ review_result' = opResult'.v
                /\ IF opResult'.v.t # "dict"
                   THEN /\ apiResult' = Raise("AttributeError")
                        /\ response' = FallbackResponse(spec, "AttributeError")
                        /\ pc' = "done"
                        /\ UNCHANGED main_code
                   ELSE /\ main_code' = carried_main_code(main_code, opResult'.v.v)
                        /\ pc' = "enhance_return"
                        /\ UNCHANGED <<apiResult, response>>
    /\ inflight' = "none"
    /\ UNCHANGED <<envKey, mode, callerSpec, spec, idx, enhanced_endpoints, calls,
                   op, opArg>>
    /\ UNCHANGED auxVars

\* the return statement of generate_enhanced_api, and the handler's answer
ReturnEnhanced ==
    /\ pc = "enhance_return"
    /\ \E tm \in Clock, td \in Clock :
        /\ apiResult' = enhanced_result(spec, main_code, review_result, mode, tm, td)
        /\ response' =
              IF apiResult'.ok
              THEN [status_code |-> 200, success |-> TRUE, data |-> apiResult'.v,
                    mode |-> mode]
              ELSE FallbackResponse(spec, apiResult'.exc)
    /\ pc' = "done"
    /\ UNCHANGED <<envKey, mode, callerSpec, spec, idx, enhanced_endpoints,
                   main_code, review_result, inflight, calls, op, opArg, tryResult,
                   opResult>>
    /\ UNCHANGED auxVars

\* POST /api/generate
GenerateApiCode ==
    /\ pc = "idle"
    /\ \E d \in SpecSamples :
        LET model == APISpecModel(d)
        IN  /\ callerSpec' = d
            /\ spec' = d
            /\ IF ~model.ok
               THEN /\ response' = [status_code |-> 422, detail |-> model.exc]
                    /\ UNCHANGED apiResult
               ELSE /\ apiResult' = generate_api(model.v)
                    /\ response' =
                          IF apiResult'.ok
                          THEN [status_code |-> 200, data |-> apiResult'.v]
                          ELSE [status_code |-> 500, detail |-> "generation_error",
                                cause |-> apiResult'.exc]
    /\ pc' = "generated"
    /\ UNCHANGED <<envKey, mode, idx, enhanced_endpoints, main_code, review_result,
                   inflight, calls, op, opArg, tryResult, opResult>>
    /\ UNCHANGED auxVars

Next ==
    \/ GenerateFromDescription
    \/ DescribeReply
    \/ GenerateEnhancedCode
    \/ EnhanceEndpoint
    \/ EnhanceReply
    \/ EnhanceLoopEnd
    \/ BuildMainCode
    \/ ReviewReply
    \/ ReturnEnhanced
    \/ GenerateApiCode

Spec == Init /\ [][Next]_vars

-----------------------------------------------------------------------------
(* Invocations of the stateless operations: the template generators, the   *)
(* path helpers and the example endpoints, called in any order at any time *)

TemplateGenerators ==
    {"_generate_ai_enhanced_main_code", "_generate_enhanced_models",
     "_generate_enhanced_requirements", "_generate_enhanced_documentation"}

EpCreate == [path |-> PathUsers, method |-> "POST", description |-> "create user"]

Database == {"postgresql", "mysql", "sqlite", "mongodb"}

SpecVersioned == SetKey(BaseSpec(<<EpList>>), "version", "2.0.0")
SpecOnDatabase(d) == SetKey(BaseSpec(<<EpList>>), "database", d)

\* the endpoint lists of the specs the enhanced generators are invoked with
GeneratorEndpointLists ==
    {<<>>, <<EpList>>, <<EpList, EpCreate>>, <<EpCreate, EpList>>,
     <<EpList, EpCreate, EpList>>, <<EpList, EpDelete>>}

\* the spec dicts the enhanced generators are invoked with
MainCodeSpecs ==
    {BaseSpec(eps) : eps \in GeneratorEndpointLists}
        \cup {SpecNoDescription, SpecNoEndpoints, SpecVersioned}
ModelsSpecs == {BaseSpec(<<>>), SpecNoDescription, SpecVersioned}
RequirementsSpecs ==
    {SpecOnDatabase(d) : d \in Database \cup {"oracle"}} \cup {SpecNoDescription}
DocumentationSpecs == MainCodeSpecs \cup {SpecOnDatabase("mysql")}

\* the validated models the basic generator is invoked with: every database,
\* without and with authentication
BasicSpecs ==
    {[APISpecModel(BaseSpec(<<EpList>>)).v EXCEPT !.database = d,
                                                  !.authentication = a] :
        d \in Database, a \in {"none", "jwt"}}

\* str.join: the strings (token sequences) with sep between consecutive ones
RECURSIVE join(_, _)
join(sep, strings) ==
    IF strings = <<>> THEN <<>>
    ELSE IF Len(strings) = 1 THEN strings[1]
    ELSE strings[1] \o sep \o join(sep, Tail(strings))

\* str.split(tok): the pieces of text between the occurrences of tok
RECURSIVE split(_, _)
split(text, tok) ==
    LET i == IndexFrom(text, tok, 1)
    IN  IF i = 0 THEN <<text>>
        ELSE <<SubSeq(text, 1, i - 1)>> \o split(SubSeq(text, i + 1, Len(text)), tok)

\* the separator literal of a join: "\n" is the newline character; "\\n" is
\* a backslash followed by the letter n
Separator(sep) == IF sep = "newline" THEN <<"\n">> ELSE <<"\\", "n">>

\* the text a requirements generator returns
requirements_text(joined) ==
    join(Separator(joined.sep), [i \in 1..Len(joined.items) |-> <<joined.items[i]>>])

\* the call outcomes the loop of a FULLY_AI request is run with
LoopOutcomes == {[kind |-> "error"], [kind |-> "reply", content |-> <<"{full}">>]}

\* enhance_endpoint_logic on one endpoint, given the outcome of its call
enhance_endpoint_logic(endpoint, outcome) ==
    IF client = None \/ ~WellFormedEndpoint(endpoint) THEN endpoint
    ELSE enhance_from_reply(endpoint, outcome)

\* the FULLY_AI loop: enhanced_endpoints after the endpoints eps, the call
\* of endpoint i ending as outcomes[i]
RECURSIVE enhance_all_Reversed(_, _)
enhance_all_Reversed(eps, outcomes) ==
    IF eps = <<>> THEN <<>>
    ELSE enhance_all_Reversed(Tail(eps), Tail(outcomes))
            \o <<enhance_endpoint_logic(Head(eps), Head(outcomes))>>
RECURSIVE enhance_all(_, _)
enhance_all(eps, outcomes) ==
    IF eps = <<>> THEN <<>>
    ELSE <<enhance_endpoint_logic(Head(eps), Head(outcomes))>>
            \o enhance_all(Tail(eps), Tail(outcomes))

\* the FULLY_AI branch of generate_enhanced_api up to spec["endpoints"]
fully_ai_endpoints(s, outcomes) ==
    IF ~({"name", "description"} \subseteq DOMAIN s) THEN Raise("KeyError")
    ELSE Ok(enhance_all(Get(s, "endpoints", <<>>), outcomes))

Invocation(fn, args, t, result) ==
    [fn |-> fn, args |-> args, at |-> t, result |-> result]

\* the invocation before this one is kept for comparison or not
KeepOrDrop ==
    /\ keptCall' \in {keptCall, lastCall}
    /\ UNCHANGED <<requestVars, concVars>>

InvokeMainCode ==
    \E s \in MainCodeSpecs, t \in Clock :
        /\ lastCall' = Invocation("_generate_ai_enhanced_main_code", s, t,
                                  generate_ai_enhanced_main_code(s, t))
        /\ KeepOrDrop

InvokeModels ==
    \E s \in ModelsSpecs, t \in Clock :
        /\ lastCall' = Invocation("_generate_enhanced_models", s, t,
                                  generate_enhanced_models(s, t))
        /\ KeepOrDrop

InvokeRequirements ==
    \E s \in RequirementsSpecs, t \in Clock :
        /\ lastCall' = Invocation("_generate_enhanced_requirements", s, t,
                                  generate_enhanced_requirements(s))
        /\ KeepOrDrop

InvokeDocumentation ==
    \E s \in DocumentationSpecs, t \in Clock :
        /\ lastCall' = Invocation("_generate_enhanced_documentation", s, t,
                                  generate_enhanced_documentation(s, t))
        /\ KeepOrDrop

InvokeBasicRequirements ==
    \E s \in BasicSpecs :
        /\ lastCall' = Invocation("_generate_requirements", s, 0,
                                  generate_requirements(s))
        /\ KeepOrDrop

InvokeEnhanceLoop ==
    \E s \in {BaseSpec(eps) : eps \in GeneratorEndpointLists} \cup {SpecNoDescription} :
        \E outcomes \in [1..Len(Get(s, "endpoints", <<>>)) -> LoopOutcomes] :
            /\ lastCall' = Invocation("fully_ai_endpoints",
                                      [spec |-> s, outcomes |-> outcomes], 0,
                                      fully_ai_endpoints(s, outcomes))
            /\ KeepOrDrop

NextCalls ==
    \/ InvokeMainCode
    \/ InvokeModels
    \/ InvokeRequirements
    \/ InvokeDocumentation
    \/ InvokeBasicRequirements
    \/ InvokeEnhanceLoop

SpecCalls == Init /\ [][NextCalls]_vars

-----------------------------------------------------------------------------
(* The path helpers and the example endpoints, each applied to one input *)

\* str.strip("/")
RECURSIVE lstrip_slash(_)
lstrip_slash(s) == IF s # <<>> /\ Head(s) = "/" THEN lstrip_slash(Tail(s)) ELSE s

RECURSIVE rstrip_slash(_)
rstrip_slash(s) ==
    IF s # <<>> /\ s[Len(s)] = "/" THEN rstrip_slash(SubSeq(s, 1, Len(s) - 1)) ELSE s

\* the tokens that are one character outside [a-zA-Z0-9]; a word token is a
\* run of letters, digits and underscores
Punctuation == {"/", "{", "}", "\\", "-", "."}

\* re.sub(r"[^a-zA-Z0-9]", "_", part): an underscore of a word is replaced
\* by an underscore
sub_non_alnum(part) ==
    [i \in 1..Len(part) |-> IF part[i] \in Punctuation THEN "_" ELSE part[i]]

\* part.startswith("{") and part.endswith("}")
BraceEnclosed(part) == part # <<>> /\ Head(part) = "{" /\ part[Len(part)] = "}"

\* name_parts after the for loop over parts, without the method
RECURSIVE name_parts_KeepApi(_)
name_parts_KeepApi(parts) ==
    IF parts = <<>> THEN <<>>
    ELSE (IF BraceEnclosed(Head(parts))
          THEN << <<"by">>, SubSeq(Head(parts), 2, Len(Head(parts)) - 1) >>
          ELSE << sub_non_alnum(Head(parts)) >>)
            \o name_parts_KeepApi(Tail(parts))
RECURSIVE name_parts(_)
name_parts(parts) ==
    IF parts = <<>> THEN <<>>
    ELSE (IF BraceEnclosed(Head(parts))
          THEN << <<"by">>, SubSeq(Head(parts), 2, Len(Head(parts)) - 1) >>
          ELSE IF Head(parts) # <<"api">>
               THEN << sub_non_alnum(Head(parts)) >>
               ELSE <<>>)
            \o name_parts(Tail(parts))

\* _path_to_function_name
path_to_function_name(path, method) ==
    join(<<"_">>,
         << <<Lower(method)>> >>
            \o name_parts(split(rstrip_slash(lstrip_slash(path)), "/")))

\* the endpoints of the three example specs: method and path
USER_MANAGEMENT_EXAMPLE ==
    [name |-> "User Management API", version |-> "1.0.0", framework |-> "fastapi",
     database |-> "postgresql", authentication |-> "jwt",
     endpoints |->
        <<[method |-> "POST", path |-> <<"/", "api", "/", "auth", "/", "register">>],
          [method |-> "POST", path |-> <<"/", "api", "/", "auth", "/", "login">>],
          [method |-> "GET", path |-> PathUsers],
          [method |-> "GET", path |-> PathUserId]>>]

BLOG_SYSTEM_EXAMPLE ==
    [name |-> "Blog System API", version |-> "1.2.0", framework |-> "fastapi",
     database |-> "mysql", authentication |-> "jwt",
     endpoints |->
        <<[method |-> "GET", path |-> <<"/", "api", "/", "posts">>],
          [method |-> "POST", path |-> <<"/", "api", "/", "posts">>],
          [method |-> "GET",
           path |-> <<"/", "api", "/", "posts", "/", "{", "post_id", "}">>],
          [method |-> "GET", path |-> <<"/", "api", "/", "categories">>]>>]

ECOMMERCE_EXAMPLE ==
    [name |-> "E-commerce API", version |-> "2.0.0", framework |-> "fastapi",
     database |-> "postgresql", authentication |-> "jwt",
     endpoints |->
        <<[method |-> "GET", path |-> <<"/", "api", "/", "products">>],
          [method |-> "GET",
           path |-> <<"/", "api", "/", "products", "/", "{", "product_id", "}">>],
          [method |-> "GET", path |-> <<"/", "api", "/", "cart">>],
          [method |-> "POST", path |-> <<"/", "api", "/", "cart", "/", "items">>],
          [method |-> "POST", path |-> <<"/", "api", "/", "orders">>]>>]

\* GET /api/examples
get_examples ==
    Ok([examples |->
          <<[id |-> "user_management",
             endpoints_count |-> Len(USER_MANAGEMENT_EXAMPLE.endpoints),
             framework |-> "FastAPI", database |-> "PostgreSQL"],
            [id |-> "blog_system",
             endpoints_count |-> Len(BLOG_SYSTEM_EXAMPLE.endpoints),
             framework |-> "FastAPI", database |-> "MySQL"],
            [id |-> "ecommerce",
             endpoints_count |-> Len(ECOMMERCE_EXAMPLE.endpoints),
             framework |-> "FastAPI", database |-> "PostgreSQL"]>>])

\* the dict examples of get_example
examples_WithoutEcommerce ==
    [id \in {"user_management", "blog_system"} |->
        CASE id = "user_management" -> USER_MANAGEMENT_EXAMPLE
          [] id = "blog_system" -> BLOG_SYSTEM_EXAMPLE]
examples ==
    [id \in {"user_management", "blog_system", "ecommerce"} |->
        CASE id = "user_management" -> USER_MANAGEMENT_EXAMPLE
          [] id = "blog_system" -> BLOG_SYSTEM_EXAMPLE
          [] id = "ecommerce" -> ECOMMERCE_EXAMPLE]

\* GET /api/examples/{example_id}
get_example(example_id) ==
    IF example_id \notin DOMAIN examples THEN HTTPException(404, "example_not_found")
    ELSE Ok(examples[example_id])

\* the segments the paths are built of
Segments ==
    {<<>>, <<"api">>, <<"users">>, <<"{", "id", "}">>, <<"{", "user_id", "}">>,
     <<"my", "-", "items">>, <<"{", "}">>, <<"\\", "{", "id", "\\", "}">>}

\* the paths the helpers are applied to, with and without the leading slash
Paths ==
    LET joined == {join(<<"/">>, segs) :
                      segs \in UNION {[1..n -> Segments] : n \in 0..MaxSegments}}
    IN  joined \cup {<<"/">> \o p : p \in joined}

ExampleIds == {"user_management", "blog_system", "ecommerce", "unknown", ""}

\* the calls made, before they run
HelperCalls ==
    {Invocation("_extract_path_params", [path |-> p], 0, Pending) : p \in Paths}
        \cup {Invocation("_path_to_function_name", [path |-> p, method |-> m], 0,
                         Pending) : p \in Paths, m \in HTTPMethod \cup {"get"}}
        \cup {Invocation("get_examples", EmptyDict, 0, Pending)}
        \cup {Invocation("get_example", [example_id |-> id], 0, Pending) :
                 id \in ExampleIds}

\* the paths of the endpoints handler blocks are generated for
EndpointPaths ==
    {<<"/">> \o join(<<"/">>, segs) :
        segs \in UNION {[1..n -> Segments] : n \in 1..(MaxSegments - 1)}}

\* the endpoint dicts: every method, without the key ai_generated_logic, with
\* the empty string and with logic
EndpointInputs ==
    {[path |-> p, method |-> m, description |-> "an endpoint"] :
        p \in EndpointPaths, m \in HTTPMethod}
      \cup {[path |-> p, method |-> m, description |-> "an endpoint",
              ai_generated_logic |-> ai] :
                p \in EndpointPaths, m \in HTTPMethod, ai \in {Str(""), Str("impl")}}

\* the three operations that parse a model reply
AIOperations ==
    {"generate_api_spec_from_description", "enhance_endpoint_logic",
     "review_and_optimize_code"}

\* the replies the operations are applied to: text, whitespace, fences and
\* one JSON object, long enough for text around a closed fence
ExtractionTokens == {"ws", "fence", "json", "x", "{full}"}

\* one call has been made and has not run yet: a helper on a path or an id,
\* the handler generator on an endpoint, or an operation on a reply
InitHelpers ==
    /\ InitRequest
    /\ InitServing
    /\ keptCall = NoCall
    /\ \/ lastCall \in HelperCalls
       \/ \E e \in EndpointInputs :
             lastCall = Invocation("_generate_ai_enhanced_endpoint",
                                   [endpoint |-> e, spec |-> BaseSpec(<<e>>)],
                                   0, Pending)
       \/ \E fn \in AIOperations, n \in 0..(MaxReplyLen + 2) :
             \E content \in [1..n -> ExtractionTokens] :
                lastCall = Invocation(fn, [content |-> content], 0, Pending)

\* the call of lastCall runs and returns
Returns(fn, result) ==
    /\ lastCall.fn = fn
    /\ lastCall.result = Pending
    /\ lastCall' = [lastCall EXCEPT !.result = result]
    /\ UNCHANGED <<requestVars, keptCall, concVars>>

ExtractPathParams ==
    /\ lastCall.fn = "_extract_path_params"
    /\ Returns("_extract_path_params", Ok(extract_path_params(lastCall.args.path)))

PathToFunctionName ==
    /\ lastCall.fn = "_path_to_function_name"
    /\ Returns("_path_to_function_name",
               Ok(path_to_function_name(lastCall.args.path, lastCall.args.method)))

GetExamples ==
    /\ lastCall.fn = "get_examples"
    /\ Returns("get_examples", get_examples)

GetExample ==
    /\ lastCall.fn = "get_example"
    /\ Returns("get_example", get_example(lastCall.args.example_id))

GenerateAiEnhancedEndpoint ==
    /\ lastCall.fn = "_generate_ai_enhanced_endpoint"
    /\ Returns("_generate_ai_enhanced_endpoint",
               generate_ai_enhanced_endpoint(lastCall.args.endpoint,
                                             lastCall.args.spec))

\* what an operation did with the reply: the text it handed to json.loads
\* and what it returned or raised
Parsed(content, returned) ==
    Ok([parsed |-> ExtractJson(strip(content)), returned |-> returned])

DescribeParses ==
    /\ lastCall.fn = "generate_api_spec_from_description"
    /\ Returns("generate_api_spec_from_description",
               Parsed(lastCall.args.content,
                      spec_from_reply([kind |-> "reply",
                                       content |-> lastCall.args.content])))

EnhanceParses ==
    /\ lastCall.fn = "enhance_endpoint_logic"
    /\ Returns("enhance_endpoint_logic",
               Parsed(lastCall.args.content,
                      Ok(enhance_from_reply(EpList,
                                            [kind |-> "reply",
                                             content |-> lastCall.args.content]))))

ReviewParses ==
    /\ lastCall.fn = "review_and_optimize_code"
    /\ Returns("review_and_optimize_code",
               Parsed(lastCall.args.content,
                      review_from_reply(Str("code"),
                                        [kind |-> "reply",
                                         content |-> lastCall.args.content])))

NextHelpers ==
    \/ DescribeParses
    \/ EnhanceParses
    \/ ReviewParses
    \/ GenerateAiEnhancedEndpoint
    \/ ExtractPathParams
    \/ PathToFunctionName
    \/ GetExamples
    \/ GetExample

SpecHelpers == InitHelpers /\ [][NextHelpers]_vars

-----------------------------------------------------------------------------
(* Two requests served concurrently by the module-level generators: each   *)
(* handler coroutine runs up to its next await, in any interleaving.       *)
(* OPENAI_API_KEY is set.                                                  *)

\* the request bodies of POST /api/ai/enhance-code
ConcurrentSpecs ==
    {BaseSpec(<<EpList>>), BaseSpec(<<EpDelete>>), BaseSpec(<<EpList, EpDelete>>),
     SpecNoDescription}

\* the outcomes of the review and description calls
ServedOutcomes == LoopOutcomes \cup {[kind |-> "reply", content |-> <<"[]">>]}

\* where enhanced_endpoints of request r lives: it is a local variable of the
\* coroutine of r
ListOf_Instance(r) == "first"
ListOf(r) == r

\* the handler answers: its coroutine and the locals are gone
Done(f, answer) ==
    [f EXCEPT !.pc = "done", !.response = answer, !.spec = EmptyDict,
              !.main_code = None, !.idx = 0]

\* the return statement of generate_enhanced_api and the handler's answer
Finish(f, code, review, tm, td) ==
    LET result == enhanced_result(f.spec, code, review, f.mode, tm, td)
    IN  Done(f, IF result.ok
                THEN [status_code |-> 200, success |-> TRUE, data |-> result.v,
                      mode |-> f.mode]
                ELSE FallbackResponse(f.spec, result.exc))

\* generate_enhanced_api from "main_code = ..." to its next await or its end
FromMainCode(f, t, tm, td) ==
    LET code == generate_ai_enhanced_main_code(f.spec, t)
    IN  IF ~code.ok THEN Done(f, FallbackResponse(f.spec, code.exc))
        ELSE IF f.mode \in {"ai_assisted", "fully_ai"}
        THEN IF client = None
             THEN Finish(f, code.v, ReviewFallback(code.v), tm, td)
             ELSE [f EXCEPT !.pc = "review_await", !.main_code = code.v]
        ELSE Finish(f, code.v, None, tm, td)

\* POST /api/ai/enhance-code arrives and runs to its first await
ReceiveEnhance ==
    \E r \in Requests, body \in ConcurrentSpecs, m \in GenerationModes,
       t \in Clock, tm \in Clock, td \in Clock :
        LET f == [frames[r] EXCEPT !.body = body, !.spec = body, !.mode = m]
        IN  /\ frames[r].pc = "idle"
            /\ IF m = "fully_ai"
               THEN /\ enhanced_lists' = [enhanced_lists EXCEPT ![ListOf(r)] = <<>>]
                    /\ frames' =
                          [frames EXCEPT ![r] =
                              IF {"name", "description"} \subseteq DOMAIN body
                              THEN [f EXCEPT !.pc = "enhance_loop", !.idx = 1]
                              ELSE Done(f, FallbackResponse(body, "KeyError"))]
               ELSE /\ frames' = [frames EXCEPT ![r] = FromMainCode(f, t, tm, td)]
                    /\ UNCHANGED enhanced_lists
            /\ UNCHANGED <<requestVars, keptCall, lastCall>>

\* one iteration of the loop up to the await of its call
EnhanceCall ==
    \E r \in Requests :
        LET f == frames[r]
            eps == Get(f.spec, "endpoints", <<>>)
        IN  /\ f.pc = "enhance_loop"
            /\ f.idx <= Len(eps)
            /\ IF client = None \/ ~WellFormedEndpoint(eps[f.idx])
               THEN /\ enhanced_lists' =
                          [enhanced_lists EXCEPT ![ListOf(r)] = Append(@, eps[f.idx])]
                    /\ frames' = [frames EXCEPT ![r].idx = @ + 1]
               ELSE /\ frames' = [frames EXCEPT ![r].pc = "enhance_await"]
                    /\ UNCHANGED enhanced_lists
            /\ UNCHANGED <<requestVars, keptCall, lastCall>>

\* the call of the loop completes: enhanced_endpoints.append(enhanced)
EnhanceReturn ==
    \E r \in Requests, o \in LoopOutcomes :
        LET f == frames[r]
        IN  /\ f.pc = "enhance_await"
            /\ enhanced_lists' =
                  [enhanced_lists EXCEPT ![ListOf(r)] =
                      Append(@, enhance_from_reply(f.spec.endpoints[f.idx], o))]
            /\ frames' = [frames EXCEPT ![r] =
                             [f EXCEPT !.pc = "enhance_loop", !.idx = @ + 1,
                                       !.replies = Append(@, o)]]
            /\ UNCHANGED <<requestVars, keptCall, lastCall>>

\* the loop ends: spec["endpoints"] = enhanced_endpoints, then the main code
LoopEnd ==
    \E r \in Requests, t \in Clock, tm \in Clock, td \in Clock :
        LET f == frames[r]
        IN  /\ f.pc = "enhance_loop"
            /\ f.idx > Len(Get(f.spec, "endpoints", <<>>))
            /\ frames' =
                  [frames EXCEPT ![r] =
                      FromMainCode([f EXCEPT !.spec =
                                       endpoints_after_loop(f.spec,
                                                            enhanced_lists[ListOf(r)])],
                                   t, tm, td)]
            /\ UNCHANGED <<enhanced_lists, requestVars, keptCall, lastCall>>

\* the review call completes, and generate_enhanced_api runs to its end
ReviewReturn ==
    \E r \in Requests, o \in ServedOutcomes, tm \in Clock, td \in Clock :
        LET f == [frames[r] EXCEPT !.replies = Append(@, o)]
            review == review_from_reply(f.main_code, o)
        IN  /\ f.pc = "review_await"
            /\ frames' =
                  [frames EXCEPT ![r] =
                      IF ~review.ok THEN Done(f, FallbackResponse(f.spec, review.exc))
                      ELSE IF review.v.t # "dict"
                      THEN Done(f, FallbackResponse(f.spec, "AttributeError"))
                      ELSE Finish(f, carried_main_code(f.main_code, review.v.v),
                                  review.v, tm, td)]
            /\ UNCHANGED <<enhanced_lists, requestVars, keptCall, lastCall>>

\* POST /api/ai/generate-from-description arrives and runs to its await
ReceiveDescription ==
    \E r \in Requests :
        /\ frames[r].pc = "idle"
        /\ frames' = [frames EXCEPT ![r] =
                         [@ EXCEPT !.pc = "describe_await", !.mode = "describe",
                                   !.body = DescriptionRequest]]
        /\ UNCHANGED <<enhanced_lists, requestVars, keptCall, lastCall>>

\* the description call completes, and the handler answers
DescribeReturn ==
    \E r \in Requests, o \in ServedOutcomes :
        LET f == [frames[r] EXCEPT !.replies = Append(@, o)]
            result == spec_from_reply(o)
        IN  /\ f.pc = "describe_await"
            /\ frames' =
                  [frames EXCEPT ![r] =
                      Done(f, IF result.ok
                              THEN [status_code |-> 200, success |-> TRUE,
                                    data |-> result.v.api_spec,
                                    reasoning |-> result.v.reasoning,
                                    suggestions |-> result.v.suggestions,
                                    confidence_score |-> result.v.confidence_score]
                              ELSE [status_code |-> 500,
                                    detail |-> "generation_failed",
                                    cause |-> result.exc])]
            /\ UNCHANGED <<enhanced_lists, requestVars, keptCall, lastCall>>

NextConcurrent ==
    \/ ReceiveEnhance
    \/ EnhanceCall
    \/ EnhanceReturn
    \/ LoopEnd
    \/ ReviewReturn
    \/ ReceiveDescription
    \/ DescribeReturn

SpecConcurrent == Init /\ [][NextConcurrent]_vars

-----------------------------------------------------------------------------
(* The claims *)

\* C1: when OPENAI_API_KEY is unset or empty, POST
\* /api/ai/generate-from-description answers 503 and no chat-completion call
\* has been issued or is in flight.
C1_MissingKeyAnswers503 ==
    envKey \in {"unset", "empty"} =>
        /\ pc = "done"
        /\ response.status_code = 503
        /\ calls = NoCalls
        /\ inflight = "none"

C1_Witness ==
    /\ envKey = "empty"
    /\ response.status_code = 503
    /\ calls.describe = 0

\* C2: when json.loads rejects the fence-stripped reply,
\* generate_api_spec_from_description ends by raising HTTPException 500 with
\* the parse-error detail, and returns no AIGeneratedSpec.
C2_ParseErrorRaises500 ==
    (op = "describe" /\ tryResult = Raise("JSONDecodeError")) =>
        /\ pc = "done"
        /\ ~opResult.ok
        /\ opResult.exc = [status_code |-> 500, detail |-> "parse_error"]
        /\ response.status_code = 500

C2_Witness ==
    /\ op = "describe"
    /\ tryResult = Raise("JSONDecodeError")
    /\ ~opResult.ok
    /\ opResult.exc.detail = "parse_error"

\* C3: for a spec with name, description and well-formed endpoints, in every
\* mode, generate_enhanced_api returns a dict with exactly the six keys
\* (ai_review None exactly in template mode) and POST /api/ai/enhance-code
\* answers with the requested mode and that dict as data.
C3_EnhancedApiReturnsDict ==
    (pc = "done" /\ mode \in GenerationModes /\ WellFormedSpec(callerSpec)) =>
        /\ apiResult.ok
        /\ DOMAIN apiResult.v = {"main_code", "models", "database", "requirements",
                                 "documentation", "ai_review"}
        /\ (apiResult.v.ai_review = None) <=> (mode = "template")
        /\ response.mode = mode
        /\ response.data = apiResult.v

\* C4: for every valid APISpecModel, generate_api returns a
\* GeneratedCodeResponse whose five fields are strings, and POST /api/generate
\* answers with it, not with an error.
C4_GenerateApiReturnsStrings ==
    (pc = "generated" /\ APISpecModel(callerSpec).ok) =>
        /\ apiResult.ok
        /\ \A k \in {"main_code", "models", "database", "requirements",
                     "documentation"} : IsStr(apiResult.v[k])
        /\ response.status_code = 200

\* C5: when enhanced generation raises, POST /api/ai/enhance-code answers
\* success=true, mode='basic_fallback', and data holds the code of the basic
\* generator (it is not None).
C5_FallbackCarriesBasicCode ==
    (pc = "done" /\ mode # "none" /\ response.mode = "basic_fallback") =>
        /\ response.status_code = 200
        /\ response.success
        /\ response.data # None

\* C6: review_and_optimize_code never raises, and when its call fails or its
\* reply cannot be parsed it returns the fallback object with quality_score 70,
\* no issues, and optimized_code equal to the code it was given.
C6_ReviewNeverRaises ==
    (op = "review" /\ tryResult # Pending) =>
        /\ opResult.ok
        /\ ~tryResult.ok => opResult.v = ReviewFallback(opArg)

C6_Witness ==
    /\ op = "review"
    /\ tryResult = Raise("APIError")
    /\ opResult = Ok(ReviewFallback(opArg))

\* C7: enhance_endpoint_logic never raises, and when its call fails, its reply
\* cannot be parsed or the endpoint lacks a key of the prompt it returns the
\* endpoint it was given, unchanged.
C7_EnhanceNeverRaises ==
    (op = "enhance" /\ tryResult # Pending) =>
        /\ opResult.ok
        /\ ~tryResult.ok => opResult.v = opArg

C7_Witness ==
    /\ op = "enhance"
    /\ tryResult = Raise("JSONDecodeError")
    /\ opResult = Ok(opArg)

\* C8: per invocation, each operation has issued at most one chat-completion
\* call, and enhance_endpoint_logic at most one per endpoint, also after a
\* call has failed.
C8_AtMostOneCall ==
    /\ calls.describe <= 1
    /\ calls.review <= 1
    /\ \A i \in DOMAIN calls.enhance : calls.enhance[i] <= 1

C8_Witness ==
    /\ op = "enhance"
    /\ tryResult = Raise("APIError")
    /\ pc = "enhance_main"
    /\ Len(calls.enhance) = 2
    /\ \A i \in DOMAIN calls.enhance : calls.enhance[i] = 1

\* the for loop of a FULLY_AI request has processed the endpoint list
LoopDone ==
    /\ mode = "fully_ai"
    /\ {"name", "description"} \subseteq DOMAIN callerSpec
    /\ pc \in {"enhance_main", "review_await", "enhance_return", "done"}

C10_CallerSpecUnchanged ==
    (pc = "done" /\ mode # "none") => spec = callerSpec

\* two invocations of one template generator with equal specifications
SameGeneratorSameSpec ==
    /\ keptCall.fn \in TemplateGenerators
    /\ lastCall.fn = keptCall.fn
    /\ lastCall.args = keptCall.args

RequirementsGenerators == {"_generate_requirements", "_generate_enhanced_requirements"}

\* the packages a requirements invocation selected and joined
Joined(call) ==
    IF call.fn = "_generate_requirements" THEN call.result ELSE call.result.v

\* the database value a requirements invocation was given
DatabaseOf(call) ==
    IF "database" \in DOMAIN call.args THEN call.args.database ELSE "sqlite"

DriverPackages == {"psycopg2-binary", "pymysql", "motor", "pymongo"}

DriversIn(call) ==
    {Joined(call).items[i] : i \in 1..Len(Joined(call).items)} \cap DriverPackages

\* C12: in both requirements generators the database value selects its driver
\* package and no other database's driver: postgresql gives psycopg2-binary,
\* mysql gives pymysql, mongodb gives motor (the enhanced generator adds
\* pymongo, also a mongodb driver), sqlite gives no driver package.
C12_DatabaseSelectsDriver ==
    \A call \in {keptCall, lastCall} :
        call.fn \in RequirementsGenerators =>
            /\ DatabaseOf(call) = "postgresql" => DriversIn(call) = {"psycopg2-binary"}
            /\ DatabaseOf(call) = "mysql" => DriversIn(call) = {"pymysql"}
            /\ DatabaseOf(call) = "mongodb" =>
                  /\ "motor" \in DriversIn(call)
                  /\ DriversIn(call) \subseteq {"motor", "pymongo"}
            /\ DatabaseOf(call) = "sqlite" => DriversIn(call) = {}

C12_Witness ==
    /\ keptCall.fn = "_generate_requirements"
    /\ keptCall.args.database = "mysql"
    /\ DriversIn(keptCall) = {"pymysql"}
    /\ lastCall.fn = "_generate_enhanced_requirements"
    /\ DatabaseOf(lastCall) = "mongodb"
    /\ "motor" \in DriversIn(lastCall)

\* C13: the text returned by each requirements generator has one package per
\* line: splitting it on the newline character yields exactly the list of
\* selected packages.
C13_OnePackagePerLine ==
    lastCall.fn \in RequirementsGenerators =>
        split(requirements_text(Joined(lastCall)), "\n")
            = [i \in 1..Len(Joined(lastCall).items) |-> <<Joined(lastCall).items[i]>>]

\* C14: the main code contains the spec's name and description as given, and
\* the spec's version, with '1.0.0' substituted exactly when the spec has no
\* version key.
C14_MainCodeCarriesFields ==
    \A call \in {keptCall, lastCall} :
        (call.fn = "_generate_ai_enhanced_main_code" /\ call.result.ok) =>
            /\ call.result.v.name = call.args.name
            /\ call.result.v.description = call.args.description
            /\ call.result.v.version =
                  IF "version" \in DOMAIN call.args THEN call.args.version
                  ELSE "1.0.0"

C14_Witness ==
    /\ keptCall.fn = "_generate_ai_enhanced_main_code"
    /\ "version" \in DOMAIN keptCall.args
    /\ keptCall.result.ok
    /\ keptCall.result.v.version = "2.0.0"
    /\ lastCall.fn = "_generate_ai_enhanced_main_code"
    /\ "version" \notin DOMAIN lastCall.args
    /\ lastCall.result.ok
    /\ lastCall.result.v.version = "1.0.0"

\* the blocks follow the endpoints: as many, and block i is of endpoint i
BlocksFollow(blocks, eps) ==
    /\ Len(blocks) = Len(eps)
    /\ \A i \in 1..Len(eps) :
          /\ blocks[i].method = eps[i].method
          /\ blocks[i].path = eps[i].path

\* C15: the generated main code and documentation contain exactly one block
\* per endpoint of the spec, in the order of the spec's endpoint list, and in
\* FULLY_AI mode the enhanced endpoint list has the same length and the same
\* (method, path) sequence as the input list.
C15_EndpointOrderKept ==
    \A call \in {keptCall, lastCall} :
        /\ (call.fn = "_generate_ai_enhanced_main_code" /\ call.result.ok) =>
              BlocksFollow(call.result.v.endpoints_code,
                           IF "endpoints" \in DOMAIN call.args
                           THEN call.args.endpoints ELSE <<>>)
        /\ (call.fn = "_generate_enhanced_documentation" /\ call.result.ok) =>
              BlocksFollow(call.result.v.endpoints,
                           IF "endpoints" \in DOMAIN call.args
                           THEN call.args.endpoints ELSE <<>>)
        /\ (call.fn = "fully_ai_endpoints" /\ call.result.ok) =>
              BlocksFollow(call.result.v, call.args.spec.endpoints)

\* the enhanced list of three endpoints, one call failed, and the main code
\* of three endpoints
C15_Witness ==
    /\ keptCall.fn = "fully_ai_endpoints"
    /\ keptCall.result.ok
    /\ Len(keptCall.result.v) = 3
    /\ Carries(keptCall.result.v[1])
    /\ ~Carries(keptCall.result.v[2])
    /\ lastCall.fn = "_generate_ai_enhanced_main_code"
    /\ lastCall.result.ok
    /\ Len(lastCall.result.v.endpoints_code) = 3
    /\ lastCall.result.v.endpoints_code[2].method = "POST"

\* C15 in the request: once the loop of a FULLY_AI request is done, the spec
\* holds as many endpoints as the caller gave, each with the method and path
\* given, and the main code built from them has their blocks in that order.
C15_LoopKeepsOrder ==
    /\ LoopDone =>
          /\ Len(spec.endpoints) = Len(Get(callerSpec, "endpoints", <<>>))
          /\ \A i \in 1..Len(spec.endpoints) :
                /\ Get(spec.endpoints[i], "method", None)
                      = Get(callerSpec.endpoints[i], "method", None)
                /\ spec.endpoints[i].path = callerSpec.endpoints[i].path
    /\ (pc = "review_await" /\ main_code # None) =>
          BlocksFollow(main_code.endpoints_code, Get(spec, "endpoints", <<>>))

\* the names enclosed in braces from position i on: "{", one or more
\* characters other than "}", "}"
RECURSIVE BraceNamesFrom(_, _)
BraceNamesFrom(path, i) ==
    IF i > Len(path) THEN <<>>
    ELSE LET q == IndexFrom(path, "}", i + 1)
         IN  IF path[i] = "{" /\ q >= i + 2
             THEN <<SubSeq(path, i + 1, q - 1)>> \o BraceNamesFrom(path, q + 1)
             ELSE BraceNamesFrom(path, i + 1)

\* C19: _extract_path_params returns the names enclosed in braces, in order
\* of appearance: ['user_id'] for '/api/users/{user_id}', the empty list for
\* a path without braces.
C19_ExtractsBraceNames ==
    (lastCall.fn = "_extract_path_params" /\ lastCall.result # Pending) =>
        lastCall.result = Ok(BraceNamesFrom(lastCall.args.path, 1))

\* what the segments from the i-th on add to the name: nothing for 'api',
\* '_by_x' for {x}, and otherwise '_' and the segment with every
\* non-alphanumeric character replaced by an underscore
RECURSIVE NameAfter(_, _)
NameAfter(segs, i) ==
    IF i > Len(segs) THEN <<>>
    ELSE LET seg == segs[i]
             braces == Len(seg) >= 2 /\ seg[1] = "{" /\ seg[Len(seg)] = "}"
         IN  (IF braces THEN <<"_", "by", "_">> \o SubSeq(seg, 2, Len(seg) - 1)
              ELSE IF seg = <<"api">> THEN <<>>
              ELSE <<"_">> \o [k \in 1..Len(seg) |->
                                 IF seg[k] \in {"/", "{", "}", "\\", "-", "."}
                                 THEN "_" ELSE seg[k]])
                \o NameAfter(segs, i + 1)

\* C20: _path_to_function_name maps '/api/users/{id}' with GET to
\* 'get_users_by_id'; in general the name is the lower-cased method followed
\* by the path segments joined with underscores, a segment equal to 'api'
\* skipped, {x} contributing 'by', 'x', and every non-alphanumeric character
\* of any other segment replaced by an underscore.
C20_FunctionNameOfPath ==
    (lastCall.fn = "_path_to_function_name" /\ lastCall.result # Pending) =>
        /\ lastCall.result.ok
        /\ lastCall.result.v =
              <<Lower(lastCall.args.method)>>
                 \o NameAfter(split(rstrip_slash(lstrip_slash(lastCall.args.path)),
                                    "/"), 1)
        /\ (/\ lastCall.args.path = <<"/", "api", "/", "users", "/", "{", "id", "}">>
            /\ lastCall.args.method = "GET") =>
              lastCall.result.v = <<"get", "_", "users", "_", "by", "_", "id">>

C20_Witness ==
    /\ lastCall.fn = "_path_to_function_name"
    /\ lastCall.args.path = <<"/", "api", "/", "users", "/", "{", "id", "}">>
    /\ lastCall.args.method = "GET"
    /\ lastCall.result = Ok(<<"get", "_", "users", "_", "by", "_", "id">>)

\* the database value a listed database name stands for
NamedDatabase(shown) ==
    CASE shown = "PostgreSQL" -> "postgresql"
      [] shown = "MySQL" -> "mysql"
      [] shown = "MongoDB" -> "mongodb"
      [] shown = "SQLite" -> "sqlite"
      [] OTHER -> shown

\* C18: GET /api/examples/{example_id} returns the stored example spec for
\* exactly the ids listed by GET /api/examples and answers 404 for every
\* other id; for each listed example, endpoints_count equals the number of
\* endpoints of the spec returned for that id and the listed database names
\* the database of that spec.
C18_ExamplesConsistent ==
    LET listed == get_examples.v.examples
        ids == {listed[i].id : i \in 1..Len(listed)}
    IN  /\ (lastCall.fn = "get_example" /\ lastCall.result # Pending) =>
              IF lastCall.args.example_id \in ids
              THEN /\ lastCall.result.ok
                   /\ lastCall.result.v =
                         CASE lastCall.args.example_id = "user_management" ->
                                  USER_MANAGEMENT_EXAMPLE
                           [] lastCall.args.example_id = "blog_system" ->
                                  BLOG_SYSTEM_EXAMPLE
                           [] lastCall.args.example_id = "ecommerce" ->
                                  ECOMMERCE_EXAMPLE
                           [] OTHER -> None
              ELSE /\ ~lastCall.result.ok
                   /\ lastCall.result.exc.status_code = 404
        /\ (lastCall.fn = "get_examples" /\ lastCall.result # Pending) =>
              /\ lastCall.result.ok
              /\ \A i \in 1..Len(lastCall.result.v.examples) :
                    LET entry == lastCall.result.v.examples[i]
                        returned == get_example(entry.id)
                    IN  /\ returned.ok
                        /\ entry.endpoints_count = Len(returned.v.endpoints)
                        /\ NamedDatabase(entry.database) = returned.v.database

C18_Witness ==
    /\ lastCall.fn = "get_example"
    /\ lastCall.args.example_id = "ecommerce"
    /\ lastCall.result # Pending
    /\ lastCall.result.ok
    /\ Len(lastCall.result.v.endpoints) = 5
    /\ lastCall.result.v.database = "postgresql"

\* C17: within one FULLY_AI request the chat-completion calls are strictly
\* sequential: the enhancement call for an endpoint is issued only after the
\* calls for the endpoints before it have completed, in spec order; the
\* review call is issued only after every enhancement call has completed and
\* the main code has been built from the enhanced endpoints; at no time are
\* two calls of the request in flight.
C17_CallsSequential ==
    mode = "fully_ai" =>
        \* a call that is issued and not the one in flight has completed: its
        \* result is in the list, and so are the results of the endpoints
        \* before it
        /\ \A i \in DOMAIN calls.enhance :
              calls.enhance[i] >= 1 =>
                  /\ i <= idx
                  /\ Len(enhanced_endpoints) >= i - 1
                  /\ (Len(enhanced_endpoints) < i) =>
                        (inflight = "enhance" /\ i = idx)
        /\ inflight = "enhance" =>
              /\ calls.review = 0
              /\ calls.enhance[idx] = 1
              /\ Len(enhanced_endpoints) = idx - 1
        /\ calls.review >= 1 =>
              /\ Len(enhanced_endpoints) = Len(Get(callerSpec, "endpoints", <<>>))
              /\ \A i \in DOMAIN calls.enhance :
                    WellFormedEndpoint(callerSpec.endpoints[i]) =>
                        calls.enhance[i] = 1
              /\ spec.endpoints = enhanced_endpoints
              /\ op = "review"
              /\ opArg.kind = "main_code"
              /\ BlocksFollow(opArg.endpoints_code, enhanced_endpoints)
        /\ inflight = "review" => calls.review = 1

C17_Witness ==
    /\ mode = "fully_ai"
    /\ inflight = "review"
    /\ calls.enhance = <<1, 1>>
    /\ calls.review = 1
    /\ Len(enhanced_endpoints) = 2
    /\ Carries(enhanced_endpoints[2])

\* what POST /api/ai/enhance-code answers when the request is served alone:
\* the answer of generate_enhanced_api on spec dict s from the main code on,
\* its review call, if any, ending as the first of the outcomes
AnswerFromMainCode(s, m, outcomes) ==
    LET code == generate_ai_enhanced_main_code(s, 0)
        review == review_from_reply(code.v, outcomes[1])
        final(c, rv) ==
            LET result == enhanced_result(s, c, rv, m, 0, 0)
            IN  IF result.ok
                THEN [status_code |-> 200, success |-> TRUE, data |-> result.v,
                      mode |-> m]
                ELSE FallbackResponse(s, result.exc)
    IN  IF ~code.ok THEN FallbackResponse(s, code.exc)
        ELSE IF m = "template" THEN final(code.v, None)
        ELSE IF ~review.ok THEN FallbackResponse(s, review.exc)
        ELSE IF review.v.t # "dict" THEN FallbackResponse(s, "AttributeError")
        ELSE final(IF Truthy(Get(review.v.v, "optimized_code", None))
                   THEN review.v.v.optimized_code ELSE code.v,
                   review.v)

\* the answer to a request served alone, from its body and its own replies
AnswerAlone(body, m, replies) ==
    IF m = "describe"
    THEN LET result == spec_from_reply(replies[1])
         IN  IF result.ok
             THEN [status_code |-> 200, success |-> TRUE,
                   data |-> result.v.api_spec, reasoning |-> result.v.reasoning,
                   suggestions |-> result.v.suggestions,
                   confidence_score |-> result.v.confidence_score]
             ELSE [status_code |-> 500, detail |-> "generation_failed",
                   cause |-> result.exc]
    ELSE IF m = "fully_ai"
    THEN IF ~({"name", "description"} \subseteq DOMAIN body)
         THEN FallbackResponse(body, "KeyError")
         ELSE LET eps == Get(body, "endpoints", <<>>)
              IN  AnswerFromMainCode(
                      SetKey(body, "endpoints",
                             enhance_all(eps, SubSeq(replies, 1, Len(eps)))),
                      m, SubSeq(replies, Len(eps) + 1, Len(replies)))
    ELSE AnswerFromMainCode(body, m, replies)

\* C16: when two requests are served concurrently by the module-level
\* generators, with their chat-completion awaits interleaved in any order,
\* each request's enhanced list holds the results of its own calls only, and
\* its response is the one its own request body and its own model replies
\* give when it is served alone.
C16_RequestsIsolated ==
    \A r \in Requests :
        /\ frames[r].pc \in {"enhance_loop", "enhance_await"} =>
              enhanced_lists[r] =
                  enhance_all(SubSeq(frames[r].body.endpoints, 1,
                                     Len(frames[r].replies)),
                              frames[r].replies)
        /\ frames[r].pc = "done" =>
              frames[r].response =
                  AnswerAlone(frames[r].body, frames[r].mode, frames[r].replies)

\* both requests have a call in flight, one of them after a reply of its own,
\* while the other has its review under way
C16_Witness ==
    /\ frames["first"].pc = "enhance_await"
    /\ frames["first"].idx = 2
    /\ Len(enhanced_lists["first"]) = 1
    /\ frames["second"].pc = "review_await"
    /\ frames["second"].mode = "fully_ai"
    /\ Len(frames["second"].replies) = 1

\* the sum of a sequence of numbers
RECURSIVE SumSeq(_)
SumSeq(q) == IF q = <<>> THEN 0 ELSE Head(q) + SumSeq(Tail(q))

\* the chat-completion calls the request has issued
CallsIssued == calls.describe + calls.review + SumSeq(calls.enhance)

\* C21: for a spec with n well-formed endpoints, once generate_enhanced_api
\* has ended it has issued exactly 0 chat-completion calls in TEMPLATE mode,
\* exactly 1 (the review) in AI_ASSISTED mode and exactly n+1 (one per
\* endpoint, then the review) in FULLY_AI mode, whether the calls succeeded
\* or failed.
C21_CallsPerMode ==
    (pc = "done" /\ mode \in GenerationModes /\ WellFormedSpec(callerSpec)) =>
        CallsIssued =
            CASE mode = "template" -> 0
              [] mode = "ai_assisted" -> 1
              [] mode = "fully_ai" -> Len(Get(callerSpec, "endpoints", <<>>)) + 1

\* C21 where the main code is generated: the counts are as claimed, and
\* when generating the main code raises, the review call is not issued.
C21_CallsWhenMainCodeBuilt ==
    (pc = "done" /\ mode \in GenerationModes /\ WellFormedSpec(callerSpec)) =>
        /\ calls.describe = 0
        /\ SumSeq(calls.enhance) =
              IF mode = "fully_ai" THEN Len(Get(callerSpec, "endpoints", <<>>))
              ELSE 0
        /\ calls.review =
              IF mode # "template" /\ main_code # None THEN 1 ELSE 0

\* C22: in AI_ASSISTED and FULLY_AI modes the main code generate_enhanced_api
\* carries to its return statement is the review's optimized_code when the
\* review result has a non-empty optimized_code, and the template-generated
\* main code otherwise; when the review fell back it is the template-generated
\* code unchanged.
C22_MainCodeCarried ==
    (pc = "enhance_return" /\ mode \in {"ai_assisted", "fully_ai"}) =>
        LET reviewed == review_result.v
            has_code == /\ "optimized_code" \in DOMAIN reviewed
                        /\ reviewed.optimized_code \notin {None, Str("")}
        IN  /\ \E t \in Clock : Ok(opArg) = generate_ai_enhanced_main_code(spec, t)
            /\ main_code = IF has_code THEN reviewed.optimized_code ELSE opArg
            /\ ~tryResult.ok => main_code = opArg

\* the review replied with optimized code, and that code is carried
C22_Witness ==
    /\ pc = "enhance_return"
    /\ mode = "ai_assisted"
    /\ tryResult.ok
    /\ review_result.v.optimized_code = Str("opt")
    /\ main_code = Str("opt")

\* the review replied with an empty optimized_code, or fell back: the
\* template-generated code is carried
C22_TemplateKept ==
    /\ pc = "enhance_return"
    /\ mode = "fully_ai"
    /\ review_result.v = EmptyStrings
    /\ main_code = opArg
    /\ main_code.kind = "main_code"

\* a handler block has been generated for an endpoint
EndpointGenerated ==
    /\ lastCall.fn = "_generate_ai_enhanced_endpoint"
    /\ lastCall.result # Pending
    /\ lastCall.result.ok

\* C23: for an endpoint without AI-generated logic whose path has at least
\* one brace-enclosed parameter, the handler declares one int parameter per
\* path parameter and its default logic is the single-resource variant with
\* resource_id bound to the first path parameter (GET: lookup of that
\* resource; PUT/PATCH: update by that id); the list variant of GET and the
\* request_data id of PUT/PATCH occur only for a path without parameter; an
\* endpoint with non-empty ai_generated_logic gets that logic.
C23_DefaultLogicByPathParams ==
    EndpointGenerated =>
        LET e == lastCall.args.endpoint
            block == lastCall.result.v
            names == BraceNamesFrom(e.path, 1)
            ai == IF "ai_generated_logic" \in DOMAIN e THEN e.ai_generated_logic
                  ELSE Str("")
        IN  /\ ai # Str("") => block.implementation = [variant |-> "ai", logic |-> ai]
            /\ (ai = Str("") /\ names # <<>>) =>
                  /\ block.path_params = names
                  /\ e.method = "GET" =>
                        block.implementation =
                            [variant |-> "get_one", resource_id |-> names[1]]
                  /\ e.method \in {"PUT", "PATCH"} =>
                        block.implementation =
                            [variant |-> "update", resource_id |-> names[1]]
            /\ (ai = Str("") /\ names = <<>>) =>
                  /\ block.path_params = <<>>
                  /\ e.method = "GET" =>
                        block.implementation = [variant |-> "get_list"]
                  /\ e.method \in {"PUT", "PATCH"} =>
                        block.implementation =
                            [variant |-> "update",
                             resource_id |-> <<"request_data.get(id)">>]

\* C23 without the claim about path parameters: an endpoint with non-empty
\* ai_generated_logic gets that logic and no default logic, and an endpoint
\* without it gets the default logic of its method.
C23_AiLogicReplacesDefault ==
    EndpointGenerated =>
        LET e == lastCall.args.endpoint
            block == lastCall.result.v
        IN  IF "ai_generated_logic" \in DOMAIN e /\ e.ai_generated_logic # Str("")
            THEN block.implementation =
                    [variant |-> "ai", logic |-> e.ai_generated_logic]
            ELSE block.implementation.variant =
                    CASE e.method = "GET" ->
                            IF block.path_params = <<>> THEN "get_list" ELSE "get_one"
                      [] e.method = "POST" -> "create"
                      [] e.method \in {"PUT", "PATCH"} -> "update"
                      [] e.method = "DELETE" -> "delete"

\* C24: default-logic generation is total: for every endpoint whose method is
\* GET, POST, PUT, PATCH or DELETE and for every path, with or without path
\* parameters, _generate_ai_enhanced_endpoint returns a handler block and
\* does not raise.
C24_EndpointGenerationTotal ==
    (/\ lastCall.fn = "_generate_ai_enhanced_endpoint"
     /\ lastCall.result # Pending
     /\ lastCall.args.endpoint.method \in {"GET", "POST", "PUT", "PATCH", "DELETE"}) =>
        /\ lastCall.result.ok
        /\ lastCall.result.v.method = lastCall.args.endpoint.method
        /\ lastCall.result.v.path = lastCall.args.endpoint.path

\* C24 for the four other methods: generation returns a block for every
\* path; for DELETE it returns one when the endpoint carries AI logic or the
\* path has a parameter the pattern of _extract_path_params matches.
C24_TotalButDelete ==
    (lastCall.fn = "_generate_ai_enhanced_endpoint" /\ lastCall.result # Pending) =>
        LET e == lastCall.args.endpoint
        IN  lastCall.result.ok
               <=> \/ e.method # "DELETE"
                   \/ "ai_generated_logic" \in DOMAIN e /\ e.ai_generated_logic # Str("")
                   \/ FindAllFrom(e.path, 1) # <<>>

\* the first position after i that holds a fence, one past the end when none
NextFence(c, i) ==
    IF \E j \in (i + 1)..Len(c) : c[j] = "fence"
    THEN CHOOSE j \in (i + 1)..Len(c) :
            c[j] = "fence" /\ \A k \in (i + 1)..(j - 1) : c[k] # "fence"
    ELSE Len(c) + 1

\* the positions of the json fence tags and of the fences of c
JsonTags(c) == {i \in 1..(Len(c) - 1) : c[i] = "fence" /\ c[i + 1] = "json"}
Fences(c) == {i \in 1..Len(c) : c[i] = "fence"}

\* the text to parse, by the rule: c is the trimmed reply
TextToParse(c) ==
    IF JsonTags(c) # {}
    THEN LET i == CHOOSE i \in JsonTags(c) : \A k \in JsonTags(c) : i <= k
         IN  strip(SubSeq(c, i + 2, NextFence(c, i + 1) - 1))
    ELSE IF Fences(c) # {}
    THEN LET i == CHOOSE i \in Fences(c) : \A k \in Fences(c) : i <= k
         IN  strip(SubSeq(c, i + 1, NextFence(c, i) - 1))
    ELSE c

\* an operation has parsed a reply
ReplyParsed == lastCall.fn \in AIOperations /\ lastCall.result # Pending

\* C25: the text an operation parses is, for a trimmed reply that contains
\* the json fence tag, the trimmed text between the first tag and the next
\* fence (the end of the reply when no fence follows); otherwise, for one
\* that contains a fence, the trimmed text between the first and the second
\* fence; otherwise the whole trimmed reply, so bare JSON is parsed
\* unchanged.  Each of the three operations returns what json.loads gives
\* for that text: the description the parsed object as api_spec, the
\* enhancement the implementation of the parsed object, the review the
\* parsed object, and the outcome of a parse error when it is not JSON.
C25_FenceTagsRemoved ==
    ReplyParsed =>
        LET c == strip(lastCall.args.content)
            text == TextToParse(c)
            isJson == Len(text) = 1 /\ text[1] = "{full}"
            returned == lastCall.result.v.returned
        IN  /\ lastCall.result.v.parsed = text
            /\ Fences(c) = {} => lastCall.result.v.parsed = c
            /\ lastCall.fn = "generate_api_spec_from_description" =>
                  IF isJson THEN returned.ok /\ returned.v.api_spec = FullObject
                  ELSE returned = HTTPException(500, "parse_error")
            /\ lastCall.fn = "enhance_endpoint_logic" =>
                  IF isJson
                  THEN returned.v.ai_generated_logic = FullObject.implementation
                  ELSE returned.v = EpList
            /\ lastCall.fn = "review_and_optimize_code" =>
                  IF isJson THEN returned.v.v = FullObject
                  ELSE returned.v = ReviewFallback(Str("code"))

\* text, a json fence around the object padded with whitespace, closed
C25_Witness ==
    /\ ReplyParsed
    /\ lastCall.fn = "review_and_optimize_code"
    /\ lastCall.args.content = <<"x", "fence", "json", "{full}", "fence">>
    /\ lastCall.result.v.parsed = <<"{full}">>
    /\ lastCall.result.v.returned.v.v = FullObject


====
